---- MODULE Spec2Model ----
(***************************************************************************)
(* A model of editorRender (src/src/utils/markdown.ts): the pass that maps *)
(* a Markdown source text and its parsed Mdast tree to a DOM tree whose    *)
(* first layer is <div> blocks, second layer <div> lines, and deeper       *)
(* layers <span> elements.                                                 *)
(*                                                                         *)
(* Text is a sequence of one-character strings.  A DOM element is a record *)
(* [tag, cls, attrs, kids, text]; a DOM Text node has tag "#text" and its  *)
(* characters in text.  An element is never changed after it has been      *)
(* appended to its parent (pushElement and pushBlock replace the variable  *)
(* that held it by a fresh element at once), so elements are values.       *)
(*                                                                         *)
(* An Mdast node is a record [type, position, depth, children], where      *)
(* position ([start, end], the two offsets), depth and children are        *)
(* present only when the node has them.                                    *)
(***************************************************************************)
EXTENDS Integers, Sequences, FiniteSets, TLC

VARIABLES
  sourceCode,   \* the Markdown text (parameter of editorRender)
  mdast,        \* processor.parse(sourceCode).children
  scanOffset,   \* let scanOffset
  stack,        \* const stack: frames [node, el, first]
  block,        \* let block
  el,           \* const el, the root element
  calls,        \* the activations of getChildren: [nodes, i, parentEndOffset, at]
  pc            \* "walk": inside getChildren; "tail": it returned; "done": el returned

vars == <<sourceCode, mdast, scanOffset, stack, block, el, calls, pc>>

-----------------------------------------------------------------------------
(* Bounds of the generated inputs *)

MaxLen == 3
MaxNodes == 1

-----------------------------------------------------------------------------
(* Text and DOM primitives *)

NL == "\n"
ZWSP == "U+200B"
classNamePrefix == "x-star-md-editor-"

Min(a, b) == IF a < b THEN a ELSE b

\* String.prototype.slice(from, to) for non-negative arguments
Slice(s, from, to) ==
  LET f == Min(from, Len(s))
      t == Min(to, Len(s))
  IN  IF f >= t THEN <<>> ELSE SubSeq(s, f + 1, t)

\* The position of the first NL of s, 0 when it has none
RECURSIVE IndexOfNL(_, _)
IndexOfNL(s, k) ==
  IF k > Len(s) THEN 0
  ELSE IF s[k] = NL THEN k
  ELSE IndexOfNL(s, k + 1)

\* String.prototype.split('\n'): never empty, one more piece than line breaks
RECURSIVE Split(_)
Split(s) ==
  LET k == IndexOfNL(s, 1)
  IN  IF k = 0 THEN <<s>>
      ELSE <<SubSeq(s, 1, k - 1)>> \o Split(SubSeq(s, k + 1, Len(s)))

\* document.createElement(tagName)
CreateElement(tagName) ==
  [tag |-> tagName, cls |-> {}, attrs |-> {}, kids |-> <<>>, text |-> <<>>]

\* The Text node that Element.append(string) creates
TextNode(t) ==
  [tag |-> "#text", cls |-> {}, attrs |-> {}, kids |-> <<>>, text |-> t]

\* Element.append(child)
DomAppend(e, child) == [e EXCEPT !.kids = Append(@, child)]

\* Element.classList.add(names)
ClassListAdd(e, names) == [e EXCEPT !.cls = @ \cup names]

\* Element.setAttribute(name, value)
SetAttribute(e, name, value) ==
  [e EXCEPT !.attrs = {a \in @ : a[1] /= name} \cup {<<name, value>>}]

-----------------------------------------------------------------------------
(* The closures of editorRender, as functions of the build state           *)
(* b = [scanOffset, stack, block, el].  Stack indices are the code's,      *)
(* from 0: frame index is b.stack[index + 1].                              *)

isFlowContent(node) ==
  \/ node.type = "blockquote"
  \/ node.type = "listItem"
  \/ node.type = "footnoteDefinition"

\* Mutant of StyleClasses: "first" and "last" exchanged
StyleClasses_FirstLastSwapped(node, first, last) ==
  {classNamePrefix \o node.type}
    \cup (IF node.type = "heading"
            THEN {classNamePrefix \o "heading" \o ToString(node.depth)}
          ELSE IF node.type \in {"html", "code", "math"}
            THEN (IF first THEN {classNamePrefix \o "last"} ELSE {})
                   \cup (IF last THEN {classNamePrefix \o "first"} ELSE {})
          ELSE {})

\* Mutant of StyleClasses: the class of the heading's depth forgotten
StyleClasses_NoDepth(node, first, last) ==
  {classNamePrefix \o node.type}
    \cup (IF node.type \in {"html", "code", "math"}
            THEN (IF first THEN {classNamePrefix \o "first"} ELSE {})
                   \cup (IF last THEN {classNamePrefix \o "last"} ELSE {})
          ELSE {})

\* Mutant of StyleClasses: "first" at every flush, not only at the first
StyleClasses_FirstEveryLine(node, first, last) ==
  {classNamePrefix \o node.type}
    \cup (IF node.type = "heading"
            THEN {classNamePrefix \o "heading" \o ToString(node.depth)}
          ELSE IF node.type \in {"html", "code", "math"}
            THEN {classNamePrefix \o "first"}
                   \cup (IF last THEN {classNamePrefix \o "last"} ELSE {})
          ELSE {})

\* The class names pushElement adds to styleElement
StyleClasses(node, first, last) ==
  {classNamePrefix \o node.type}
    \cup (IF node.type = "heading"
            THEN {classNamePrefix \o "heading" \o ToString(node.depth)}
          ELSE IF node.type \in {"html", "code", "math"}
            THEN (IF first THEN {classNamePrefix \o "first"} ELSE {})
                   \cup (IF last THEN {classNamePrefix \o "last"} ELSE {})
          ELSE {})

\* Mutant of StyleIndex: the classes always go to the node's own element
StyleIndex_Own(stk, index) == index

\* The index of the frame whose element takes the classes
StyleIndex(stk, index) ==
  IF index /= 0 /\ ~isFlowContent(stk[index].node) THEN index ELSE 0

\* Mutant of FreshTag: the replacement is always a <span>
FreshTag_Span(index) == "span"

\* The tag of the element that replaces a pushed one: index ? 'span' : 'div'
FreshTag(index) == IF index /= 0 THEN "span" ELSE "div"

pushElement(b, index, last) ==
  LET node == b.stack[index + 1].node
      first == b.stack[index + 1].first
      styled == [b.stack EXCEPT ![StyleIndex(b.stack, index) + 1].el =
                   ClassListAdd(@, StyleClasses(node, first, last))]
      child == styled[index + 1].el
      fresh == CreateElement(FreshTag(index))
  IN  IF index /= 0
        THEN [b EXCEPT !.stack = [styled EXCEPT ![index].el = DomAppend(@, child),
                                                ![index + 1].el = fresh,
                                                ![index + 1].first = FALSE]]
        ELSE [b EXCEPT !.block = DomAppend(@, child),
                       !.stack = [styled EXCEPT ![1].el = fresh,
                                                ![1].first = FALSE]]

\* Mutant of pushBlock: the block variable keeps the pushed block
pushBlock_KeepBlock(b) ==
  [b EXCEPT !.el = DomAppend(@, ClassListAdd(b.block, {classNamePrefix \o "block"}))]

pushBlock(b) ==
  [b EXCEPT !.el = DomAppend(@, ClassListAdd(b.block, {classNamePrefix \o "block"})),
            !.block = CreateElement("div")]

createDelimiter(text) ==
  ClassListAdd(DomAppend(CreateElement("span"), TextNode(text)),
               {classNamePrefix \o "delimiter"})

\* Mutant of createLine: the marker forgotten
createLine_NoMarker(text) ==
  DomAppend(CreateElement("div"), TextNode(text))

createLine(text) ==
  DomAppend(CreateElement("div"), TextNode(text \o <<ZWSP>>))

\* stack[stack.length - 1].el.append(delimiter ? createDelimiter(t) : t), if (t)
AppendToTop(b, t, delimiter) ==
  IF t = <<>> THEN b
  ELSE [b EXCEPT !.stack[Len(b.stack)].el =
          DomAppend(@, IF delimiter THEN createDelimiter(t) ELSE TextNode(t))]

\* Mutant of FlushInner: the frames are flushed outermost first
RECURSIVE FlushInner_OutermostFirst(_, _)
FlushInner_OutermostFirst(b, j) ==
  IF j = 0 THEN b
  ELSE FlushInner_OutermostFirst(pushElement(b, Len(b.stack) - j, FALSE), j - 1)

\* for (let j = stack.length - 1; j; j--) pushElement(j)
RECURSIVE FlushInner(_, _)
FlushInner(b, j) ==
  IF j = 0 THEN b ELSE FlushInner(pushElement(b, j, FALSE), j - 1)

\* The body of addText's loop over lines[1..], stack not empty
RECURSIVE AddLines(_, _, _, _)
AddLines(b, lines, i, delimiter) ==
  IF i >= Len(lines) THEN b
  ELSE LET flushed == FlushInner(b, Len(b.stack) - 1)
           marked == [flushed EXCEPT !.stack[1].el = DomAppend(@, TextNode(<<ZWSP>>))]
           pushed == pushElement(marked, 0, FALSE)
       IN  AddLines(AppendToTop(pushed, lines[i + 1], delimiter), lines, i + 1, delimiter)

\* Mutant of AddBlocks: the consumed line break is not counted
RECURSIVE AddBlocks_NoBreak(_, _, _)
AddBlocks_NoBreak(b, lines, i) ==
  IF i >= Len(lines) - 1 THEN b
  ELSE LET lined == [b EXCEPT !.block = DomAppend(@, createLine(lines[i + 1]))]
           pushed == pushBlock(lined)
       IN  AddBlocks_NoBreak([pushed EXCEPT !.scanOffset = @ + Len(lines[i + 1])],
                             lines, i + 1)

\* addText's loop over lines[0 .. length - 2], stack empty
RECURSIVE AddBlocks(_, _, _)
AddBlocks(b, lines, i) ==
  IF i >= Len(lines) - 1 THEN b
  ELSE LET lined == [b EXCEPT !.block = DomAppend(@, createLine(lines[i + 1]))]
           pushed == pushBlock(lined)
       IN  AddBlocks([pushed EXCEPT !.scanOffset = @ + Len(lines[i + 1]) + 1],
                     lines, i + 1)

\* Mutant of addText: inside a node the line breaks are not counted
addText_BreaksNotCounted(b, text, delimiter) ==
  LET lines == Split(text)
  IN  IF Len(b.stack) /= 0
        THEN [AddLines(AppendToTop(b, lines[1], delimiter), lines, 1, delimiter)
                EXCEPT !.scanOffset = @ + Len(text) - (Len(lines) - 1)]
        ELSE AddBlocks(b, lines, 0)

addText(b, text, delimiter) ==
  LET lines == Split(text)
  IN  IF Len(b.stack) /= 0
        THEN [AddLines(AppendToTop(b, lines[1], delimiter), lines, 1, delimiter)
                EXCEPT !.scanOffset = @ + Len(text)]
        ELSE AddBlocks(b, lines, 0)

-----------------------------------------------------------------------------
(* The inputs *)

Chars == {"a", NL}

Strings == UNION {[1..k -> Chars] : k \in 0..MaxLen}

LeafTypes == {"text", "code"}
ParentTypes == {"paragraph", "blockquote"}
HeadingDepths == {2}

\* [start, end] offsets within a text of length len
Positions(len) == {[start |-> s, end |-> e] : s \in 0..len, e \in 0..len}

Ranges(len) == {p \in Positions(len) : p.start <= p.end}

LeafNodes(len) ==
  {[type |-> t] : t \in LeafTypes}
    \cup {[type |-> t, position |-> p] : t \in LeafTypes, p \in Ranges(len)}

ParentNodes(len, kidsets) ==
  {[type |-> t, children |-> c] : t \in ParentTypes, c \in kidsets}
    \cup {[type |-> t, position |-> p, children |-> c] :
            t \in ParentTypes, p \in Ranges(len), c \in kidsets}
    \cup {[type |-> "heading", depth |-> d, position |-> p, children |-> c] :
            d \in HeadingDepths, p \in Ranges(len), c \in kidsets}

\* The forests of exactly n nodes, and the nodes with exactly k descendants
RECURSIVE GenForests(_, _), GenNodes(_, _)
GenForests(len, n) ==
  IF n = 0 THEN {<<>>}
  ELSE UNION {{<<h>> \o r : h \in GenNodes(len, k), r \in GenForests(len, n - 1 - k)} :
                k \in 0..(n - 1)}
GenNodes(len, k) ==
  (IF k = 0 THEN LeafNodes(len) ELSE {}) \cup ParentNodes(len, GenForests(len, k))

\* The forests of at most n nodes
RECURSIVE Forests(_, _)
Forests(len, n) ==
  IF n = 0 THEN GenForests(len, 0) ELSE GenForests(len, n) \cup Forests(len, n - 1)

-----------------------------------------------------------------------------
(* Inputs written out: what the parser returns for some Markdown texts *)

Leaf(type, start, end) ==
  [type |-> type, position |-> [start |-> start, end |-> end]]

Parent(type, start, end, children) ==
  [type |-> type, position |-> [start |-> start, end |-> end], children |-> children]

Heading(depth, start, end, children) ==
  [type |-> "heading", depth |-> depth,
   position |-> [start |-> start, end |-> end], children |-> children]

TextPara1 == <<"p", "a", "r", "a", "1">>
TextPara2 == <<"p", "a", "r", "a", "2">>

\* "para1\n\npara2": two paragraphs
ScenarioB ==
  [sourceCode |-> TextPara1 \o <<NL, NL>> \o TextPara2,
   mdast |-> <<Parent("paragraph", 0, 5, <<Leaf("text", 0, 5)>>),
               Parent("paragraph", 7, 12, <<Leaf("text", 7, 12)>>)>>]

\* "## Hi": a heading of depth 2
ScenarioC ==
  [sourceCode |-> <<"#", "#", " ", "H", "i">>,
   mdast |-> <<Heading(2, 0, 5, <<Leaf("text", 3, 5)>>)>>]

\* "> q": a blockquote holding one paragraph
ScenarioD ==
  [sourceCode |-> <<">", " ", "q">>,
   mdast |-> <<Parent("blockquote", 0, 3,
                      <<Parent("paragraph", 2, 3, <<Leaf("text", 2, 3)>>)>>)>>]

\* "<p>\n</p>": an html node over two lines
ScenarioHtml ==
  [sourceCode |-> <<"<", "p", ">", NL, "<", "/", "p", ">">>,
   mdast |-> <<Leaf("html", 0, 8)>>]

\* "a <b\nc> d": a paragraph whose inline html spans two lines
ScenarioInlineHtml ==
  [sourceCode |-> <<"a", " ", "<", "b", NL, "c", ">", " ", "d">>,
   mdast |-> <<Parent("paragraph", 0, 9,
                      <<Leaf("text", 0, 2), Leaf("html", 2, 7), Leaf("text", 7, 9)>>)>>]

\* "> $$\n> x": a blockquote holding a math node over two lines
ScenarioQuotedMath ==
  [sourceCode |-> <<">", " ", "$", "$", NL, ">", " ", "x">>,
   mdast |-> <<Parent("blockquote", 0, 8, <<Leaf("math", 2, 8)>>)>>]

\* "- a\n- b": a list of two items
ScenarioList ==
  [sourceCode |-> <<"-", " ", "a", NL, "-", " ", "b">>,
   mdast |-> <<Parent("list", 0, 7,
                 <<Parent("listItem", 0, 3,
                          <<Parent("paragraph", 2, 3, <<Leaf("text", 2, 3)>>)>>),
                   Parent("listItem", 4, 7,
                          <<Parent("paragraph", 6, 7, <<Leaf("text", 6, 7)>>)>>)>>)>>]

\* "# A\n\n*b*\n": a heading of depth 1, an emphasis, a final line break
ScenarioMixed ==
  [sourceCode |-> <<"#", " ", "A", NL, NL, "*", "b", "*", NL>>,
   mdast |-> <<Heading(1, 0, 3, <<Leaf("text", 2, 3)>>),
               Parent("paragraph", 5, 8,
                      <<Parent("emphasis", 5, 8, <<Leaf("text", 6, 7)>>)>>)>>]

\* "[^n]: x\ny": a footnote definition whose paragraph spans two lines
ScenarioFootnote ==
  [sourceCode |-> <<"[", "^", "n", "]", ":", " ", "x", NL, "y">>,
   mdast |-> <<Parent("footnoteDefinition", 0, 9,
                      <<Parent("paragraph", 6, 9, <<Leaf("text", 6, 9)>>)>>)>>]

\* "\na\nb\n": a paragraph of two lines after a blank line, a final line break
ScenarioLines ==
  [sourceCode |-> <<NL, "a", NL, "b", NL>>,
   mdast |-> <<Parent("paragraph", 1, 4, <<Leaf("text", 1, 4)>>)>>]

\* "x\n<i>": a paragraph, and an html node whose reported range starts at
\* the line break that ends the paragraph's line (lines 230-233)
ScenarioAdjacent ==
  [sourceCode |-> <<"x", NL, "<", "i", ">">>,
   mdast |-> <<Parent("paragraph", 0, 1, <<Leaf("text", 0, 1)>>),
               Leaf("html", 1, 5)>>]

\* "a\nb": a paragraph, then a node whose range lies in text already emitted
ScenarioConsumed ==
  [sourceCode |-> <<"a", NL, "b">>,
   mdast |-> <<Parent("paragraph", 0, 3, <<Leaf("text", 0, 3)>>),
               Leaf("text", 2, 3)>>]

\* "a\nb": a block quote and its child carry no position, a paragraph follows
ScenarioNoRange ==
  [sourceCode |-> <<"a", NL, "b">>,
   mdast |-> <<[type |-> "blockquote",
                children |-> <<Leaf("inlineCode", 0, 1)>>],
               Parent("paragraph", 2, 3, <<Leaf("text", 2, 3)>>)>>]

Scenarios ==
  {ScenarioB, ScenarioC, ScenarioD, ScenarioHtml, ScenarioInlineHtml,
   ScenarioQuotedMath, ScenarioList, ScenarioMixed, ScenarioFootnote,
   ScenarioLines, ScenarioAdjacent, ScenarioConsumed,
   ScenarioNoRange}

Is(scenario) == sourceCode = scenario.sourceCode /\ mdast = scenario.mdast

-----------------------------------------------------------------------------
(* The state machine *)

Build == [scanOffset |-> scanOffset, stack |-> stack, block |-> block, el |-> el]

Becomes(b) ==
  /\ scanOffset' = b.scanOffset
  /\ stack' = b.stack
  /\ block' = b.block
  /\ el' = b.el

Top == calls[Len(calls)]
CurrentNode == Top.nodes[Top.i + 1]

HasRange(node) == "position" \in DOMAIN node
\* Mutant of ClampedStart: the reported start is used as it is
ClampedStart_NoClamp(node) == node.position.start

ClampedStart(node) ==
  IF node.position.start < scanOffset THEN scanOffset ELSE node.position.start
\* Mutant of IndexValue: positions counted from 1
IndexValue_OneBased(i) == ToString(i + 1)

\* The value of a block's index attribute: `${i}`
IndexValue(i) == ToString(i)

\* Mutant of Skipped: a node with nothing left to emit is entered
Skipped_NoEmptyCheck(node) == ~HasRange(node)

Skipped(node) ==
  IF ~HasRange(node) THEN TRUE ELSE ClampedStart(node) >= node.position.end

SetTop(c) == [calls EXCEPT ![Len(calls)] = c]

\* Mutant of InitWith: scanOffset is kept from an earlier call
InitWith_Stale(text, nodes) ==
  /\ sourceCode = text
  /\ mdast = nodes
  /\ calls = <<[nodes |-> nodes, i |-> 0, parentEndOffset |-> Len(text), at |-> "loop"]>>
  /\ scanOffset \in 0..1
  /\ stack = <<>>
  /\ block = CreateElement("div")
  /\ el = CreateElement("div")
  /\ pc = "walk"

InitWith(text, nodes) ==
  /\ sourceCode = text
  /\ mdast = nodes
  /\ calls = <<[nodes |-> nodes, i |-> 0, parentEndOffset |-> Len(text), at |-> "loop"]>>
  /\ scanOffset = 0
  /\ stack = <<>>
  /\ block = CreateElement("div")
  /\ el = CreateElement("div")
  /\ pc = "walk"

Init ==
  \/ \E text \in Strings :
       \E nodes \in Forests(Len(text), MaxNodes) : InitWith(text, nodes)
  \/ \E input \in Scenarios : InitWith(input.sourceCode, input.mdast)

\* The conditions under which the pass takes each of its steps: the loop test
\* of line 223 and the if/else of lines 227-237, 249-253, 255-264 and 274
AtNode == pc = "walk" /\ Top.at = "loop" /\ Top.i < Len(Top.nodes)
WhenSkipNode == AtNode /\ Skipped(CurrentNode)
WhenEnterNode == AtNode /\ ~Skipped(CurrentNode)
WhenDescend == pc = "walk" /\ Top.at = "pushed" /\ "children" \in DOMAIN CurrentNode
WhenLeafText == pc = "walk" /\ Top.at = "pushed" /\ "children" \notin DOMAIN CurrentNode
WhenCloseInner == pc = "walk" /\ Top.at = "close" /\ Len(stack) > 1

WhenCloseTop == pc = "walk" /\ Top.at = "close" /\ ~(Len(stack) > 1)
WhenReturn == pc = "walk" /\ Top.at = "loop" /\ Top.i >= Len(Top.nodes)
WhenFinish == pc = "tail"

\* Mutant of SkipNode: the node passed over is taken out of the list, so
\* that the nodes after it are counted without it
SkipNode_Dropped ==
  /\ WhenSkipNode
  /\ calls' = SetTop([Top EXCEPT !.nodes = SubSeq(@, 1, Top.i)
                                              \o SubSeq(@, Top.i + 2, Len(@))])
  /\ UNCHANGED <<sourceCode, mdast, scanOffset, stack, block, el, pc>>

\* getChildren, lines 227-237: a node without offsets, or with nothing left, is passed over
SkipNode ==
  /\ WhenSkipNode
  /\ calls' = SetTop([Top EXCEPT !.i = @ + 1])
  /\ UNCHANGED <<sourceCode, mdast, scanOffset, stack, block, el, pc>>

\* Mutant of EnterNode: scanning resumes at the node's reported start
EnterNode_Rewinds ==
  /\ WhenEnterNode
  /\ LET node == CurrentNode
         b == addText(Build, Slice(sourceCode, scanOffset, ClampedStart(node)), TRUE)
         frame == [node |-> node,
                   el |-> CreateElement(IF Len(b.stack) /= 0 THEN "span" ELSE "div"),
                   first |-> TRUE]
     IN  Becomes([b EXCEPT !.scanOffset = node.position.start,
                           !.stack = Append(@, frame)])
  /\ calls' = SetTop([Top EXCEPT !.at = "pushed"])
  /\ UNCHANGED <<sourceCode, mdast, pc>>

\* getChildren, lines 239-247: the text before the node, then its frame
EnterNode ==
  /\ WhenEnterNode
  /\ LET node == CurrentNode
         b == addText(Build, Slice(sourceCode, scanOffset, ClampedStart(node)), TRUE)
         frame == [node |-> node,
                   el |-> CreateElement(IF Len(b.stack) /= 0 THEN "span" ELSE "div"),
                   first |-> TRUE]
     IN  Becomes([b EXCEPT !.stack = Append(@, frame)])
  /\ calls' = SetTop([Top EXCEPT !.at = "pushed"])
  /\ UNCHANGED <<sourceCode, mdast, pc>>

\* getChildren, lines 249-250: the recursive call
Descend ==
  /\ WhenDescend
  /\ calls' = Append(SetTop([Top EXCEPT !.at = "close"]),
                     [nodes |-> CurrentNode.children, i |-> 0,
                      parentEndOffset |-> CurrentNode.position.end, at |-> "loop"])
  /\ UNCHANGED <<sourceCode, mdast, scanOffset, stack, block, el, pc>>

\* getChildren, lines 251-253: the text of a node without children
LeafText ==
  /\ WhenLeafText
  /\ Becomes(addText(Build,
                     Slice(sourceCode, scanOffset, CurrentNode.position.end), FALSE))
  /\ calls' = SetTop([Top EXCEPT !.at = "close"])
  /\ UNCHANGED <<sourceCode, mdast, pc>>

\* Mutant of CloseInner: the frame is not popped
CloseInner_NoPop ==
  /\ pc = "walk" /\ Top.at = "close"
  /\ Len(stack) > 1
  /\ Becomes(pushElement(Build, Len(stack) - 1, TRUE))
  /\ calls' = SetTop([Top EXCEPT !.i = @ + 1, !.at = "loop"])
  /\ UNCHANGED <<sourceCode, mdast, pc>>

\* getChildren, lines 255-256 and 265: the node's element goes to its parent's
CloseInner ==
  /\ WhenCloseInner
  /\ LET b == pushElement(Build, Len(stack) - 1, TRUE)
     IN  Becomes([b EXCEPT !.stack = SubSeq(@, 1, Len(@) - 1)])
  /\ calls' = SetTop([Top EXCEPT !.i = @ + 1, !.at = "loop"])
  /\ UNCHANGED <<sourceCode, mdast, pc>>

\* Mutant of CloseTop: scanOffset is not moved past the block's line break
CloseTop_NoAdvance ==
  /\ WhenCloseTop
  /\ LET marked == [Build EXCEPT !.stack[1].el = DomAppend(@, TextNode(<<ZWSP>>))]
         pushed == pushElement(marked, 0, TRUE)
         indexed == [pushed EXCEPT
                       !.block = SetAttribute(@, "index", IndexValue(Top.i))]
         b == pushBlock(indexed)
     IN  Becomes([b EXCEPT !.stack = SubSeq(@, 1, Len(@) - 1)])
  /\ calls' = SetTop([Top EXCEPT !.i = @ + 1, !.at = "loop"])
  /\ UNCHANGED <<sourceCode, mdast, pc>>

\* getChildren, lines 257-265: the end of a block-level node
CloseTop ==
  /\ WhenCloseTop
  /\ LET marked == [Build EXCEPT !.stack[1].el = DomAppend(@, TextNode(<<ZWSP>>))]
         pushed == pushElement(marked, 0, TRUE)
         indexed == [pushed EXCEPT
                       !.block = SetAttribute(@, "index", IndexValue(Top.i))]
         b == pushBlock(indexed)
     IN  Becomes([b EXCEPT !.scanOffset = @ + 1,
                           !.stack = SubSeq(@, 1, Len(@) - 1)])
  /\ calls' = SetTop([Top EXCEPT !.i = @ + 1, !.at = "loop"])
  /\ UNCHANGED <<sourceCode, mdast, pc>>

\* getChildren, lines 268-270: the text up to the parent's end, and the return
Return ==
  /\ WhenReturn
  /\ Becomes(addText(Build,
                     Slice(sourceCode, scanOffset, Top.parentEndOffset), TRUE))
  /\ calls' = SubSeq(calls, 1, Len(calls) - 1)
  /\ pc' = IF Len(calls) = 1 THEN "tail" ELSE "walk"
  /\ UNCHANGED <<sourceCode, mdast>>

\* Mutant of Finish: the last line only when text is left
Finish_Strict ==
  /\ pc = "tail"
  /\ IF scanOffset < Len(sourceCode)
       THEN LET lined == [Build EXCEPT !.block =
                            DomAppend(@, createLine(Slice(sourceCode, scanOffset,
                                                          Len(sourceCode))))]
            IN  Becomes(pushBlock(lined))
       ELSE UNCHANGED <<scanOffset, stack, block, el>>
  /\ pc' = "done"
  /\ UNCHANGED <<sourceCode, mdast, calls>>

\* editorRender, lines 274-280: the last line, and the result
Finish ==
  /\ WhenFinish
  /\ IF scanOffset <= Len(sourceCode)
       THEN LET lined == [Build EXCEPT !.block =
                            DomAppend(@, createLine(Slice(sourceCode, scanOffset,
                                                          Len(sourceCode))))]
            IN  Becomes(pushBlock(lined))
       ELSE UNCHANGED <<scanOffset, stack, block, el>>
  /\ pc' = "done"
  /\ UNCHANGED <<sourceCode, mdast, calls>>

Next ==
  \/ SkipNode
  \/ EnterNode
  \/ Descend
  \/ LeafText
  \/ CloseInner
  \/ CloseTop
  \/ Return
  \/ Finish

Spec == Init /\ [][Next]_vars

-----------------------------------------------------------------------------
(* Reading the output tree and the input tree *)

Last(s) == s[Len(s)]

\* The characters below an element, in document order
RECURSIVE TextOf(_), TextOfAll(_)
TextOf(e) == IF e.tag = "#text" THEN e.text ELSE TextOfAll(e.kids)
TextOfAll(es) == IF es = <<>> THEN <<>> ELSE TextOf(Head(es)) \o TextOfAll(Tail(es))

\* The lines of a sequence of blocks, in document order
RECURSIVE LinesOf(_)
LinesOf(blocks) ==
  IF blocks = <<>> THEN <<>> ELSE Head(blocks).kids \o LinesOf(Tail(blocks))

\* Every line that has been put into a block: the root's and the open block's
FinalizedLines == LinesOf(el.kids) \o block.kids

NotMarker(c) == c /= ZWSP
CountMarkers(s) == Len(s) - Len(SelectSeq(s, NotMarker))

\* The source text a root stands for: its lines without the markers, one line
\* break between two lines
RECURSIVE JoinLines(_)
JoinLines(lines) ==
  IF lines = <<>> THEN <<>>
  ELSE IF Len(lines) = 1 THEN SelectSeq(TextOf(lines[1]), NotMarker)
  ELSE SelectSeq(TextOf(lines[1]), NotMarker) \o <<NL>> \o JoinLines(Tail(lines))

Reconstruct(root) == JoinLines(LinesOf(root.kids))

\* The input contract on a list of siblings whose parent covers [lo, hi]: the
\* ranges lie in the parent's, siblings follow each other without overlap
RECURSIVE WellFormed(_, _, _)
WellFormed(nodes, lo, hi) ==
  /\ \A k \in 1..Len(nodes) :
       HasRange(nodes[k]) =>
         /\ lo <= nodes[k].position.start
         /\ nodes[k].position.start <= nodes[k].position.end
         /\ nodes[k].position.end <= hi
         /\ "children" \in DOMAIN nodes[k] =>
              WellFormed(nodes[k].children, nodes[k].position.start,
                         nodes[k].position.end)
  /\ \A j, k \in 1..Len(nodes) :
       (j < k /\ HasRange(nodes[j]) /\ HasRange(nodes[k])) =>
         nodes[j].position.end <= nodes[k].position.start

InputContract == WellFormed(mdast, 0, Len(sourceCode))

\* Every block-level node that covers some text ends where a line ends
BlocksEndAtLineEnd ==
  \A k \in 1..Len(mdast) :
    (HasRange(mdast[k]) /\ mdast[k].position.start < mdast[k].position.end) =>
      \/ mdast[k].position.end = Len(sourceCode)
      \/ sourceCode[mdast[k].position.end + 1] = NL

\* The blocks of the root, without and with the open one
Blocks == el.kids

-----------------------------------------------------------------------------
(* C1.  Text fidelity: for every text and every parsed tree that satisfies *)
(* the input contract, the lines of the returned root, without the markers *)
(* and joined by one line break each, are the source text.                 *)
C1_AsStated ==
  (pc = "done" /\ InputContract) => Reconstruct(el) = sourceCode

\* Where C1 holds of the pass: on the contract trees whose block-level nodes
\* each end at a line break or at the end of the text.  Line 263 steps over
\* the character after a block-level node whatever it is.
C1_TextFidelity ==
  (pc = "done" /\ InputContract /\ BlocksEndAtLineEnd) => Reconstruct(el) = sourceCode

\* A pass over a contract tree with a block of two lines, then text after it
C1_Witness ==
  /\ pc = "done" /\ InputContract /\ BlocksEndAtLineEnd
  /\ Len(el.kids) >= 2
  /\ Len(el.kids[1].kids) = 2
  /\ "index" \in {a[1] : a \in el.kids[1].attrs}
  /\ Reconstruct(el) = sourceCode

-----------------------------------------------------------------------------
(* C2 (as amended).  In every state of a pass scanOffset is at most        *)
(* S.length + 1; it is S.length + 1 after a block-level node that ends at  *)
(* the end of the text has been closed.                                    *)
C2_ScanOffsetBound == scanOffset <= Len(sourceCode) + 1

\* C2 as stated: scanOffset is at most S.length
C2_AsStated ==
  (InputContract /\ BlocksEndAtLineEnd) => scanOffset <= Len(sourceCode)

\* The pass has returned with scanOffset one past the end of the text
C2_Witness ==
  /\ pc = "done"
  /\ scanOffset = Len(sourceCode) + 1
  /\ InputContract /\ BlocksEndAtLineEnd
  /\ sourceCode /= <<>>

-----------------------------------------------------------------------------
(* C4.  Terminal block guarantee: the returned root has at least one       *)
(* block, and for the empty text it has exactly one block, of one line,    *)
(* whose only content is the marker.                                       *)
MarkerOnlyLine == DomAppend(CreateElement("div"), TextNode(<<ZWSP>>))

C4_TerminalBlock ==
  pc = "done" =>
    /\ Len(el.kids) >= 1
    /\ sourceCode = <<>> =>
         /\ Len(el.kids) = 1
         /\ el.kids[1].kids = <<MarkerOnlyLine>>

\* The pass over the empty text has returned
C4_Witness == pc = "done" /\ sourceCode = <<>> /\ mdast = <<>> /\ Len(el.kids) = 1

-----------------------------------------------------------------------------
(* C6.  Every line that has been put into a block ends with the marker:    *)
(* its last child is text whose last character is U+200B, and the line     *)
(* holds the marker once.                                                  *)
C6_LineEndsWithMarker ==
  \A k \in 1..Len(FinalizedLines) :
    LET line == FinalizedLines[k]
    IN  /\ line.kids /= <<>>
        /\ Last(line.kids).tag = "#text"
        /\ Last(line.kids).text /= <<>>
        /\ Last(Last(line.kids).text) = ZWSP
        /\ CountMarkers(TextOf(line)) = 1

\* Lines of all four origins: a split inside a node, the close of a
\* block-level node, text between blocks, the last line
C6_Witness ==
  /\ pc = "done"
  /\ Len(el.kids) = 3
  /\ Len(el.kids[1].kids) = 1 /\ el.kids[1].attrs = {}
  /\ Len(el.kids[2].kids) = 2 /\ el.kids[2].attrs /= {}
  /\ el.kids[3].attrs = {}

-----------------------------------------------------------------------------
(* C7.  Layering: the root's children are <div> blocks, a block's children *)
(* are <div> lines, everything below a line is a <span> or text; the       *)
(* element of stack frame 0 is a <div> and that of every other frame a     *)
(* <span>.                                                                 *)
RECURSIVE Inline(_)
Inline(e) ==
  \/ e.tag = "#text"
  \/ e.tag = "span" /\ \A k \in 1..Len(e.kids) : Inline(e.kids[k])

IsLine(e) == e.tag = "div" /\ \A k \in 1..Len(e.kids) : Inline(e.kids[k])
IsBlock(e) == e.tag = "div" /\ \A k \in 1..Len(e.kids) : IsLine(e.kids[k])

C7_Layering ==
  /\ el.tag = "div"
  /\ \A k \in 1..Len(el.kids) : IsBlock(el.kids[k])
  /\ IsBlock(block)
  /\ \A k \in 1..Len(stack) :
       IF k = 1 THEN IsLine(stack[k].el)
       ELSE stack[k].el.tag = "span" /\ Inline(stack[k].el)

\* Two frames are open and both elements have been replaced by a flush
C7_Witness ==
  /\ Len(stack) = 2
  /\ ~stack[1].first /\ ~stack[2].first
  /\ Len(block.kids) = 1

-----------------------------------------------------------------------------
(* Expected elements *)

Class(name) == classNamePrefix \o name

Element(tagName, classes, attributes, children) ==
  [tag |-> tagName, cls |-> classes, attrs |-> attributes, kids |-> children,
   text |-> <<>>]

BlockOf(attributes, lines) == Element("div", {Class("block")}, attributes, lines)

\* A block that holds one empty line and has no index
BlankBlock == BlockOf({}, <<MarkerOnlyLine>>)

\* The line of a paragraph with one text child
ParagraphLine(text) ==
  Element("div", {Class("paragraph")}, {},
          <<Element("span", {Class("text")}, {}, <<TextNode(text)>>),
            TextNode(<<ZWSP>>)>>)

HasIndex(e, i) == e.attrs = {<<"index", ToString(i)>>}

-----------------------------------------------------------------------------
(* C3 (as amended).  For "para1\n\npara2", parsed as two paragraphs, the   *)
(* returned root has three blocks: block 0 holds the line "para1" and the  *)
(* marker, block 1 holds one line with only the marker and has no index,   *)
(* block 2 holds the line "para2" and the marker.  More generally, when    *)
(* two block-level nodes are separated by one blank line, the blank line   *)
(* is a block of its own between the blocks of the two nodes.              *)
BlankLineBetween ==
  /\ Len(mdast) = 2
  /\ InputContract /\ BlocksEndAtLineEnd
  /\ HasRange(mdast[1]) /\ HasRange(mdast[2])
  /\ mdast[1].position.start < mdast[1].position.end
  /\ mdast[2].position.start < mdast[2].position.end
  /\ mdast[2].position.start = mdast[1].position.end + 2
  /\ sourceCode[mdast[1].position.end + 1] = NL
  /\ sourceCode[mdast[1].position.end + 2] = NL

C3_BlankLineBlock ==
  /\ (pc = "done" /\ Is(ScenarioB)) =>
       el.kids = <<BlockOf({<<"index", "0">>}, <<ParagraphLine(TextPara1)>>),
                   BlankBlock,
                   BlockOf({<<"index", "1">>}, <<ParagraphLine(TextPara2)>>)>>
  /\ (pc = "done" /\ BlankLineBetween) =>
       \E k \in 1..Len(el.kids) - 2 :
         /\ HasIndex(el.kids[k], 0)
         /\ el.kids[k + 1] = BlankBlock
         /\ HasIndex(el.kids[k + 2], 1)

\* C3 as stated: two blocks, none for the blank line
C3_AsStated ==
  (pc = "done" /\ Is(ScenarioB)) =>
    /\ Len(el.kids) = 2
    /\ el.kids[1].kids = <<ParagraphLine(TextPara1)>>
    /\ el.kids[2].kids = <<ParagraphLine(TextPara2)>>

\* The pass over "para1\n\npara2" has returned
C3_Witness == pc = "done" /\ Is(ScenarioB) /\ Len(el.kids) = 3

-----------------------------------------------------------------------------
(* C5 (as amended).  Every child of the root is a <div> whose only class   *)
(* is "<prefix>block".  The block appended when the block-level node at    *)
(* position i of the parsed tree is closed has the index attribute i; the  *)
(* blocks made from text between block-level nodes and the last block      *)
(* have no index attribute.  No step changes a block already in the root.  *)
NewBlocks == SubSeq(el'.kids, Len(el.kids) + 1, Len(el'.kids))

C5_BlockStep ==
  /\ Len(el'.kids) >= Len(el.kids)
  /\ SubSeq(el'.kids, 1, Len(el.kids)) = el.kids
  /\ IF pc = "walk" /\ Top.at = "close" /\ Len(stack) = 1
       THEN /\ Len(calls) = 1 /\ Top.nodes = mdast
            /\ Len(NewBlocks) = 1
            /\ HasIndex(NewBlocks[1], Top.i)
       ELSE \A k \in 1..Len(NewBlocks) : NewBlocks[k].attrs = {}

C5_BlockClassAndIndex ==
  /\ [](\A k \in 1..Len(el.kids) :
          el.kids[k].tag = "div" /\ el.kids[k].cls = {Class("block")})
  /\ [][C5_BlockStep]_vars

\* C5 as stated: every block of the root has the class and an index, the
\* position of a block-level node
C5_AsStated ==
  (InputContract /\ BlocksEndAtLineEnd) =>
    \A k \in 1..Len(el.kids) :
      /\ Class("block") \in el.kids[k].cls
      /\ \E i \in 0..(Len(mdast) - 1) : HasIndex(el.kids[k], i)

\* A root with the blocks of two nodes and a block of text between them
C5_Witness ==
  /\ pc = "done"
  /\ Len(el.kids) >= 3
  /\ \E k \in 1..Len(el.kids) - 2 :
       /\ HasIndex(el.kids[k], 0)
       /\ el.kids[k + 1].attrs = {}
       /\ HasIndex(el.kids[k + 2], 1)
  /\ Last(el.kids).attrs = {}

-----------------------------------------------------------------------------
(* Steps of the pass, for the claims about what one step does *)

OpaqueTypes == {"html", "code", "math"}

NotBreak(c) == c /= NL
CountBreaks(s) == Len(s) - Len(SelectSeq(s, NotBreak))

IsSpan(e) == e.tag = "span"

\* The element of frame `depth` inside a line that a flush has put into the
\* block: each frame's element is the last <span> of its parent frame's
RECURSIVE Spine(_, _)
Spine(e, depth) ==
  IF depth = 0 THEN e ELSE Spine(Last(SelectSeq(e.kids, IsSpan)), depth - 1)

\* The step emits the text of the node on top of the stack, a node without children
AtLeafText == pc = "walk" /\ Top.at = "pushed" /\ "children" \notin DOMAIN CurrentNode

\* The step closes the node on top of the stack
AtClose == pc = "walk" /\ Top.at = "close"

\* The step emits text while frames are open, and the text has a line break
AtFlush ==
  /\ pc = "walk" /\ Top.at \in {"loop", "pushed"}
  /\ Len(stack) >= 1
  /\ Len(block'.kids) > Len(block.kids)

\* Frame index (from 0) puts its classes on its own element
OwnStyle(index) == StyleIndex(stack, index) = index

-----------------------------------------------------------------------------
(* C8 (as amended).  Multi-line node splitting: a node of an opaque type   *)
(* (html, code or math) without children whose emitted text, the source    *)
(* from scanOffset to the node's end when its frame has been pushed,       *)
(* contains exactly one line break, produces two elements that carry the   *)
(* node's type class, on two lines of the same block.  The first is put    *)
(* into the block at the line break; it gets the "first" class and the     *)
(* step does not give it the "last" class.  The second is the element      *)
(* that takes the node's classes at its close; it gets the "last" class    *)
(* and does not carry the "first" class.                                   *)
C8_AtBreak ==
  LET d == Len(stack)
      node == CurrentNode
      line == Last(block'.kids)
      lineStyled == d = 1 \/ ~OwnStyle(d - 1)
      before == IF lineStyled THEN stack[1].el ELSE stack[d].el
      first == IF lineStyled THEN line ELSE Spine(line, d - 1)
      second == IF lineStyled THEN stack'[1].el ELSE stack'[d].el
  IN  /\ Len(block'.kids) = Len(block.kids) + 1
      /\ Class(node.type) \in first.cls
      /\ Class("first") \in first.cls
      /\ Class("last") \in first.cls => Class("last") \in before.cls
      /\ second.cls = {}
      /\ ~stack'[d].first

C8_AtClose ==
  LET d == Len(stack)
      node == stack[d].node
      second == IF d = 1 THEN Last(Last(el'.kids).kids)
                ELSE IF OwnStyle(d - 1) THEN Last(stack'[d - 1].el.kids)
                ELSE stack'[1].el
  IN  /\ Class(node.type) \in second.cls
      /\ Class("last") \in second.cls
      /\ Class("first") \notin second.cls
      /\ d = 1 => Len(Last(el'.kids).kids) = Len(block.kids) + 1

EmittedText == Slice(sourceCode, scanOffset, CurrentNode.position.end)

C8_TwoLineSplit ==
  /\ [][(AtLeafText /\ CurrentNode.type \in OpaqueTypes /\ CountBreaks(EmittedText) = 1)
          => C8_AtBreak]_vars
  /\ [][(AtClose /\ Last(stack).node.type \in OpaqueTypes
           /\ "children" \notin DOMAIN Last(stack).node /\ ~Last(stack).first)
          => C8_AtClose]_vars

RangeText(node) == Slice(sourceCode, node.position.start, node.position.end)

\* The two elements that take the node's classes are lines of the block
LineStyled == Len(stack) = 1 \/ ~OwnStyle(Len(stack) - 1)

\* C8 as stated, for every opaque node whose range holds exactly one line
\* break: two sibling elements, the first with "first" and without "last"
C8_AsStated ==
  [][(AtLeafText /\ CurrentNode.type \in OpaqueTypes
        /\ InputContract /\ BlocksEndAtLineEnd
        /\ CountBreaks(RangeText(CurrentNode)) = 1)
       => (C8_AtBreak /\ LineStyled)]_vars

\* An html node inside a paragraph has been split over two lines and closed
C8_Witness ==
  /\ Is(ScenarioInlineHtml)
  /\ Len(block.kids) = 1
  /\ Spine(block.kids[1], 1).cls = {Class("html"), Class("first")}
  /\ Len(stack) = 1
  /\ stack[1].el.kids /= <<>>
  /\ Last(stack[1].el.kids).cls = {Class("html"), Class("last")}

-----------------------------------------------------------------------------
(* C9.  Flow-content class placement: when the frame at stack index i is   *)
(* flushed or closed, the classes of its node go to the element of frame 0 *)
(* if i = 0 or the node of frame i - 1 is a blockquote, listItem or        *)
(* footnoteDefinition, and to the frame's own element otherwise.  For a    *)
(* blockquote holding one paragraph on one line, the classes of both are   *)
(* on the one line element.                                                *)
FrameClasses(k, last) == StyleClasses(stack[k].node, stack[k].first, last)

\* The classes that frames 1.. leave on the line element when all are pushed
RECURSIVE FlowClasses(_, _)
FlowClasses(k, last) ==
  IF k > Len(stack) THEN {}
  ELSE (IF isFlowContent(stack[k - 1].node)
          THEN FrameClasses(k, last /\ k = Len(stack)) ELSE {})
         \cup FlowClasses(k + 1, last)

\* A line break flushes every frame: the first line the step puts into the block
C9_AtFlush ==
  LET line == block'.kids[Len(block.kids) + 1]
  IN  \A k \in 1..Len(stack) :
        Spine(line, k - 1).cls =
          IF k = 1
            THEN stack[1].el.cls \cup FrameClasses(1, FALSE) \cup FlowClasses(2, FALSE)
          ELSE IF isFlowContent(stack[k - 1].node) THEN stack[k].el.cls
          ELSE stack[k].el.cls \cup FrameClasses(k, FALSE)

\* The close of the frame on top of the stack
C9_AtClose ==
  LET d == Len(stack)
  IN  IF d = 1
        THEN Last(Last(el'.kids).kids).cls = stack[1].el.cls \cup FrameClasses(1, TRUE)
      ELSE IF isFlowContent(stack[d - 1].node)
        THEN /\ stack'[1].el.cls = stack[1].el.cls \cup FrameClasses(d, TRUE)
             /\ Last(stack'[d - 1].el.kids).cls = stack[d].el.cls
      ELSE /\ Last(stack'[d - 1].el.kids).cls = stack[d].el.cls \cup FrameClasses(d, TRUE)
           /\ d > 2 => stack'[1].el.cls = stack[1].el.cls

QuoteLine == el.kids[1].kids[1]

C9_FlowClassPlacement ==
  /\ [][AtFlush => C9_AtFlush]_vars
  /\ [][AtClose => C9_AtClose]_vars
  /\ []((pc = "done" /\ Is(ScenarioD)) =>
          /\ Len(el.kids) = 1 /\ Len(el.kids[1].kids) = 1
          /\ QuoteLine.cls = {Class("blockquote"), Class("paragraph")}
          /\ Spine(QuoteLine, 1).cls = {})

\* The pass over "> q" has returned with both classes on the line
C9_Witness ==
  /\ pc = "done" /\ Is(ScenarioD)
  /\ {Class("blockquote"), Class("paragraph")} \subseteq QuoteLine.cls

-----------------------------------------------------------------------------
(* C10 (as amended).  For "## Hi", parsed as a heading of depth 2, the     *)
(* block made for the heading carries only the class "<prefix>block"; the  *)
(* classes "<prefix>heading" and "<prefix>heading2" are on the line inside *)
(* the block.  In general the close of a block-level heading of depth d    *)
(* appends a block whose only class is "<prefix>block" and whose lines all *)
(* carry "<prefix>heading" and "<prefix>heading<d>".                       *)
HeadingClasses(depth) == {Class("heading"), Class("heading" \o ToString(depth))}

C10_AtClose ==
  LET made == Last(el'.kids)
  IN  /\ made.cls = {Class("block")}
      /\ made.kids /= <<>>
      /\ \A k \in 1..Len(made.kids) :
           HeadingClasses(stack[1].node.depth) \subseteq made.kids[k].cls

C10_HeadingClasses ==
  /\ []((pc = "done" /\ Is(ScenarioC)) =>
          /\ Len(el.kids) = 1
          /\ el.kids[1].cls = {Class("block")}
          /\ Len(el.kids[1].kids) = 1
          /\ el.kids[1].kids[1].cls = HeadingClasses(2))
  /\ [][(AtClose /\ Len(stack) = 1 /\ stack[1].node.type = "heading")
          => C10_AtClose]_vars

\* C10 as stated: the block, the child of the root, carries the heading classes
C10_AsStated ==
  (pc = "done" /\ Is(ScenarioC)) => HeadingClasses(2) \subseteq el.kids[1].cls

\* The pass over "## Hi" has returned
C10_Witness ==
  /\ pc = "done" /\ Is(ScenarioC)
  /\ HeadingClasses(2) \subseteq el.kids[1].kids[1].cls

-----------------------------------------------------------------------------
(* The walk: how far it is from its end, and how the stack follows it *)

\* The number of nodes of a forest
RECURSIVE Size(_)
Size(nodes) ==
  IF nodes = <<>> THEN 0
  ELSE 1 + (IF "children" \in DOMAIN Head(nodes) THEN Size(Head(nodes).children)
            ELSE 0)
         + Size(Tail(nodes))

ChildrenOf(node) == IF "children" \in DOMAIN node THEN node.children ELSE <<>>

\* A bound on the steps one activation of getChildren still takes: four for
\* every node not yet reached (enter, descend or emit, the return of its
\* children's activation, close), one for its own return
StepsLeft(c) ==
  LET rest == SubSeq(c.nodes, c.i + 2, Len(c.nodes))
  IN  CASE c.at = "loop" -> 4 * Size(SubSeq(c.nodes, c.i + 1, Len(c.nodes))) + 1
        [] c.at = "pushed" -> 4 * Size(ChildrenOf(c.nodes[c.i + 1])) + 3
                                + 4 * Size(rest) + 1
        [] c.at = "close" -> 1 + 4 * Size(rest) + 1

RECURSIVE SumStepsLeft(_)
SumStepsLeft(cs) == IF cs = <<>> THEN 0 ELSE StepsLeft(Head(cs)) + SumStepsLeft(Tail(cs))

Measure == SumStepsLeft(calls) + (IF pc = "done" THEN 0 ELSE 1)

\* The activations whose node has a frame on the stack
IsOpen(c) == c.at \in {"pushed", "close"}

\* One frame for every activation that has pushed one, the frame of its node;
\* every activation but the running one waits for its node's children
StackMatchesCalls ==
  /\ Len(stack) = Len(SelectSeq(calls, IsOpen))
  /\ \A k \in 1..Len(calls) :
       /\ k < Len(calls) => calls[k].at = "close"
       /\ IsOpen(calls[k]) =>
            /\ calls[k].i < Len(calls[k].nodes)
            /\ HasRange(calls[k].nodes[calls[k].i + 1])
            /\ k <= Len(stack)
            /\ stack[k].node = calls[k].nodes[calls[k].i + 1]

\* Some step of the pass can be taken
CanStep ==
  \/ WhenSkipNode \/ WhenEnterNode \/ WhenDescend \/ WhenLeafText
  \/ WhenCloseInner \/ WhenCloseTop \/ WhenReturn \/ WhenFinish

\* The frames pushElement(index) reads are on the stack: stack[index], and
\* stack[index - 1] only for index > 0
PushElementReads(index) ==
  /\ index \in 0..(Len(stack) - 1)
  /\ index /= 0 => (index - 1) \in 0..(Len(stack) - 1)

-----------------------------------------------------------------------------
(* C11.  The pass completes without an error.  Every step brings the walk  *)
(* nearer to its end and a step is possible until el is returned; the      *)
(* close of a node calls pushElement with the index of a frame that is on  *)
(* the stack (stack[index - 1] is read only for index > 0); when the       *)
(* top-level getChildren has returned the stack is empty.                  *)
C11_NoError ==
  /\ [](Measure >= 0 /\ (pc /= "done" => CanStep))
  /\ [][Measure' < Measure]_vars
  /\ [](StackMatchesCalls)
  /\ []((pc = "walk" /\ Top.at = "close") =>
          PushElementReads(IF Len(stack) > 1 THEN Len(stack) - 1 ELSE 0))
  /\ [](pc \in {"tail", "done"} => (stack = <<>> /\ calls = <<>>))

\* The pass over a footnote definition (three frames deep at most) has returned
C11_Witness == pc = "done" /\ Is(ScenarioFootnote) /\ stack = <<>> /\ Measure = 0

-----------------------------------------------------------------------------
(* C12.  Determinism: the result is a function of the text and the parsed  *)
(* tree.  A pass starts from a build state that is made anew (offset 0,    *)
(* empty stack, empty block and root), whatever earlier passes did, and in *)
(* every state at most one step can be taken; a step assigns every part of *)
(* the state a value computed from the state before it.                    *)
FreshBuild ==
  /\ scanOffset = 0
  /\ stack = <<>>
  /\ block = CreateElement("div")
  /\ el = CreateElement("div")
  /\ calls = <<[nodes |-> mdast, i |-> 0, parentEndOffset |-> Len(sourceCode),
                at |-> "loop"]>>
  /\ pc = "walk"

StepsPossible ==
  {w \in {"SkipNode", "EnterNode", "Descend", "LeafText", "CloseInner", "CloseTop",
          "Return", "Finish"} :
     CASE w = "SkipNode" -> WhenSkipNode
       [] w = "EnterNode" -> WhenEnterNode
       [] w = "Descend" -> WhenDescend
       [] w = "LeafText" -> WhenLeafText
       [] w = "CloseInner" -> WhenCloseInner
       [] w = "CloseTop" -> WhenCloseTop
       [] w = "Return" -> WhenReturn
       [] w = "Finish" -> WhenFinish}

-----------------------------------------------------------------------------
(* What the build stands for, and the calls of addText *)

\* The source characters of a line: its text without the marker
LineText(line) == SelectSeq(TextOf(line), NotMarker)

\* Lines put into a block, each with the line break that ended it
RECURSIVE Broken(_)
Broken(lines) ==
  IF lines = <<>> THEN <<>>
  ELSE LineText(Head(lines)) \o <<NL>> \o Broken(Tail(lines))

\* The text in the elements of the open frames, outermost first
RECURSIVE OpenText(_)
OpenText(stk) ==
  IF stk = <<>> THEN <<>> ELSE TextOf(Head(stk).el) \o OpenText(Tail(stk))

\* The content placed so far, in document order: the lines of the root's
\* blocks and of the open block, then the content of the open frames
Emitted == Broken(LinesOf(el.kids)) \o Broken(block.kids) \o OpenText(stack)

\* The steps that call addText once, and the text they pass
AddTextCall == WhenEnterNode \/ WhenLeafText \/ WhenReturn

CallText ==
  IF WhenEnterNode THEN Slice(sourceCode, scanOffset, ClampedStart(CurrentNode))
  ELSE IF WhenLeafText THEN Slice(sourceCode, scanOffset, CurrentNode.position.end)
  ELSE Slice(sourceCode, scanOffset, Top.parentEndOffset)

\* A text up to and with its last line break
RECURSIVE UpToLastBreak(_)
UpToLastBreak(s) ==
  IF s = <<>> THEN <<>>
  ELSE IF Last(s) = NL THEN s
  ELSE UpToLastBreak(SubSeq(s, 1, Len(s) - 1))

-----------------------------------------------------------------------------
(* C13 (as amended).  Scanner contract: a call addText(text, delimiter)    *)
(* with a non-empty stack appends text to the output at the build position *)
(* and increases scanOffset by text.length; a call with an empty stack     *)
(* appends text up to and with its last line break and increases           *)
(* scanOffset by the length of that part: what follows the last line break *)
(* (the whole text when it has none) is neither emitted nor counted.       *)
C13_Scanner ==
  [][AddTextCall =>
       LET taken == IF stack /= <<>> THEN CallText ELSE UpToLastBreak(CallText)
       IN  /\ scanOffset' = scanOffset + Len(taken)
           /\ Emitted' = Emitted \o taken]_vars

\* C13 as stated: every call appends text and adds text.length to scanOffset
C13_AsStated ==
  [][(AddTextCall /\ InputContract /\ BlocksEndAtLineEnd) =>
       /\ scanOffset' = scanOffset + Len(CallText)
       /\ Emitted' = Emitted \o CallText]_vars

\* The top-level call has returned from "a\na" without nodes: one block
\* emitted, the last segment pending
C13_Witness ==
  /\ pc = "tail" /\ mdast = <<>> /\ Len(sourceCode) = 3
  /\ scanOffset = 2 /\ Len(el.kids) = 1 /\ Emitted = SubSeq(sourceCode, 1, 2)

-----------------------------------------------------------------------------
(* Delimiter-styled text *)

Max(a, b) == IF a > b THEN a ELSE b

\* The text inside the elements of class delimiter, in document order
RECURSIVE DelimOf(_), DelimOfAll(_)
DelimOf(e) ==
  IF e.tag = "#text" THEN <<>>
  ELSE IF Class("delimiter") \in e.cls THEN TextOf(e)
  ELSE DelimOfAll(e.kids)
DelimOfAll(es) ==
  IF es = <<>> THEN <<>> ELSE DelimOf(Head(es)) \o DelimOfAll(Tail(es))

RECURSIVE OpenDelim(_)
OpenDelim(stk) ==
  IF stk = <<>> THEN <<>> ELSE DelimOf(Head(stk).el) \o OpenDelim(Tail(stk))

DelimEmitted == DelimOfAll(el.kids) \o DelimOfAll(block.kids) \o OpenDelim(stack)

-----------------------------------------------------------------------------
(* C14 (as amended).  A node with a range, reached with scanOffset = s,    *)
(* with c = max(range.start, s): if c >= range.end it pushes no frame and  *)
(* emits nothing.  Otherwise the gap S[s, c) is passed to addText before   *)
(* the frame is pushed.  Inside another node (stack not empty) the gap is  *)
(* emitted whole, in delimiter elements, and scanOffset is c when the      *)
(* frame is pushed.  For a block-level node (stack empty) only the lines   *)
(* of the gap that end with a line break are emitted, as blocks of plain   *)
(* text; the rest of the gap stays pending.  A leaf then emits             *)
(* S[scanOffset, range.end) in its frame as plain text: S[c, range.end)    *)
(* after the pending rest of the gap, if there is one.  When the tree      *)
(* satisfies the input contract, scanOffset is range.end when the node is  *)
(* closed.                                                                 *)
C14_AtSkip == UNCHANGED <<scanOffset, stack, block, el>>

C14_AtEnter ==
  LET node == CurrentNode
      c == Max(node.position.start, scanOffset)
      gap == Slice(sourceCode, scanOffset, c)
  IN  /\ Len(stack') = Len(stack) + 1
      /\ Last(stack') = [node |-> node, first |-> TRUE,
                         el |-> CreateElement(IF stack /= <<>> THEN "span" ELSE "div")]
      /\ IF stack /= <<>>
           THEN /\ scanOffset' = c
                /\ Emitted' = Emitted \o gap
                /\ DelimEmitted' = DelimEmitted \o SelectSeq(gap, NotBreak)
           ELSE /\ scanOffset' = scanOffset + Len(UpToLastBreak(gap))
                /\ Emitted' = Emitted \o UpToLastBreak(gap)
                /\ DelimEmitted' = DelimEmitted
                /\ CountBreaks(Slice(sourceCode, scanOffset', c)) = 0

C14_AtLeaf ==
  LET node == CurrentNode
      c == Max(node.position.start, scanOffset)
  IN  /\ c < node.position.end
      /\ (scanOffset < c) => (Len(stack) = 1 /\ stack[1].el.kids = <<>>)
      /\ Emitted' = Emitted \o Slice(sourceCode, scanOffset, node.position.end)
      /\ DelimEmitted' = DelimEmitted
      /\ scanOffset' = node.position.end
      /\ Len(stack') = Len(stack) /\ el' = el

C14_NodeText ==
  /\ [][(AtNode /\ HasRange(CurrentNode)
           /\ Max(CurrentNode.position.start, scanOffset) >= CurrentNode.position.end)
          => C14_AtSkip]_vars
  /\ [][(AtNode /\ HasRange(CurrentNode)
           /\ Max(CurrentNode.position.start, scanOffset) < CurrentNode.position.end)
          => C14_AtEnter]_vars
  /\ [][WhenLeafText => C14_AtLeaf]_vars
  /\ []((pc = "walk" /\ Top.at = "close" /\ InputContract)
          => scanOffset = CurrentNode.position.end)

\* C14 as stated: the gap is emitted before the frame is pushed, and the
\* leaf emits S[max(range.start, s), range.end)
C14_AsStated ==
  /\ [][(WhenEnterNode /\ InputContract /\ BlocksEndAtLineEnd)
          => scanOffset' = Max(CurrentNode.position.start, scanOffset)]_vars
  /\ [][(WhenLeafText /\ InputContract /\ BlocksEndAtLineEnd)
          => Emitted' = Emitted \o Slice(sourceCode,
                                         Max(CurrentNode.position.start, scanOffset),
                                         CurrentNode.position.end)]_vars

\* A block-level leaf has emitted its text after a pending gap
C14_Witness ==
  /\ pc = "walk" /\ Top.at = "close" /\ Len(stack) = 1
  /\ InputContract /\ BlocksEndAtLineEnd
  /\ "children" \notin DOMAIN stack[1].node
  /\ stack[1].node.position.start > 0
  /\ TextOf(stack[1].el) = SubSeq(sourceCode, 1, stack[1].node.position.end)

-----------------------------------------------------------------------------
(* C15 (as amended).  Between two operations of the pass, until the last   *)
(* line is added, scanOffset is the number of characters placed in the     *)
(* output (literal text, delimiter text, one line break for every line put *)
(* into a block, the content of the open frames included).  Every step but *)
(* the close of a block-level node appends the source text from the old to *)
(* the new scanOffset; the close of a block-level node appends a line      *)
(* break and adds one to scanOffset whatever the text has at that offset.  *)
(* So the content is S[0, scanOffset) except at the offsets after closed   *)
(* block-level nodes, where it has a line break and S may have another     *)
(* character or, at offset S.length, none.                                 *)
C15_Step ==
  IF WhenCloseTop
    THEN scanOffset' = scanOffset + 1 /\ Emitted' = Emitted \o <<NL>>
    ELSE Emitted' = Emitted \o Slice(sourceCode, scanOffset, scanOffset')

-----------------------------------------------------------------------------
(* The lines a call of addText inside a node makes *)

\* An element without the classes, its descendants too
RECURSIVE Bare(_), BareAll(_)
Bare(e) == [e EXCEPT !.cls = {}, !.kids = BareAll(@)]
BareAll(es) == IF es = <<>> THEN <<>> ELSE <<Bare(Head(es))>> \o BareAll(Tail(es))

\* What is appended for one segment of the text: nothing when it is empty
SegmentNode(seg, delimiter) ==
  IF seg = <<>> THEN <<>>
  ELSE <<IF delimiter THEN createDelimiter(seg) ELSE TextNode(seg)>>

\* The elements of frames j.. before the call, each holding the next as its
\* last child and the innermost holding `inner`
RECURSIVE OldNest(_, _)
OldNest(j, inner) ==
  IF j > Len(stack) THEN inner
  ELSE <<[stack[j].el EXCEPT !.kids = @ \o OldNest(j + 1, inner)]>>

\* The same of fresh elements, for a stack of depth d
RECURSIVE FreshNest(_, _, _)
FreshNest(j, d, inner) ==
  IF j > d THEN inner
  ELSE <<[CreateElement(IF j = 1 THEN "div" ELSE "span")
            EXCEPT !.kids = FreshNest(j + 1, d, inner)]>>

IsPrefix(s, u) == Len(s) <= Len(u) /\ SubSeq(u, 1, Len(s)) = s

\* The step calls addText while frames are open
AddTextInside == AddTextCall /\ stack /= <<>>

-----------------------------------------------------------------------------
(* C16.  Line-split flush: a call of addText with a stack of depth d > 0   *)
(* and a text with k line breaks adds k lines to the open block and        *)
(* finalizes no block.  The first added line is the element of frame 0 as  *)
(* it was, holding as its last child the element of frame 1, which holds   *)
(* that of frame 2, and so on to the innermost, which holds the first      *)
(* segment; every further line is such a chain of fresh elements around    *)
(* its segment; every line ends with the marker.  After a split every      *)
(* frame has a fresh element, empty but for the last segment in the        *)
(* innermost, and a cleared first flag.  No step changes the children of   *)
(* an element that is in a block or of a block that is in the root.        *)
C16_AtSplit ==
  LET d == Len(stack)
      segs == Split(CallText)
      k == CountBreaks(CallText)
      delimiter == ~WhenLeafText
      marker == TextNode(<<ZWSP>>)
      added == SubSeq(block'.kids, Len(block.kids) + 1, Len(block'.kids))
  IN  /\ el' = el
      /\ IsPrefix(block.kids, block'.kids)
      /\ Len(added) = k
      /\ Len(segs) = k + 1
      /\ Len(stack') >= d
      /\ IF k = 0
           THEN /\ SubSeq(stack', 1, d - 1) = SubSeq(stack, 1, d - 1)
                /\ stack'[d] = [stack[d] EXCEPT !.el.kids =
                                  @ \o SegmentNode(segs[1], delimiter)]
           ELSE /\ Bare(added[1]) =
                     Bare(DomAppend(OldNest(1, SegmentNode(segs[1], delimiter))[1],
                                    marker))
                /\ \A m \in 2..k :
                     Bare(added[m]) =
                       Bare(DomAppend(FreshNest(1, d, SegmentNode(segs[m], delimiter))[1],
                                      marker))
                /\ \A j \in 1..d :
                     /\ ~stack'[j].first
                     /\ stack'[j].node = stack[j].node
                     /\ stack'[j].el =
                          [CreateElement(IF j = 1 THEN "div" ELSE "span") EXCEPT !.kids =
                             IF j = d THEN SegmentNode(segs[k + 1], delimiter) ELSE <<>>]

C16_LineSplitFlush ==
  /\ [][AddTextInside => C16_AtSplit]_vars
  /\ [][/\ IsPrefix(el.kids, el'.kids)
        /\ IsPrefix(FinalizedLines, LinesOf(el'.kids) \o block'.kids)]_vars

\* The text of a footnote definition's paragraph has been split: three frames
\* flushed into the first line, the second segment in the innermost
C16_Witness ==
  /\ Is(ScenarioFootnote)
  /\ Len(stack) = 3 /\ Len(block.kids) = 1
  /\ \A j \in 1..3 : ~stack[j].first
  /\ TextOf(stack[3].el) = <<"y">>
  /\ Spine(block.kids[1], 2).tag = "span"

-----------------------------------------------------------------------------
(* C17.  Empty-stack emission: a call of addText with an empty stack and a *)
(* text of segments l_0 .. l_n makes of each of l_0 .. l_(n-1) one block   *)
(* of one line (the segment and the marker) in the root and adds the       *)
(* segment's length plus one to scanOffset; l_n is left pending.  A text   *)
(* without a line break changes neither root, block, stack nor scanOffset. *)
AddTextOutside == AddTextCall /\ stack = <<>>

\* The block made of one segment
SegmentBlock(seg) ==
  Element("div", {Class("block")}, {},
          <<Element("div", {}, {}, <<TextNode(seg \o <<ZWSP>>)>>)>>)

RECURSIVE SegmentBlocks(_, _)
SegmentBlocks(segs, n) ==
  IF n = 0 THEN <<>> ELSE Append(SegmentBlocks(segs, n - 1), SegmentBlock(segs[n]))

RECURSIVE SegmentLengths(_, _)
SegmentLengths(segs, n) ==
  IF n = 0 THEN 0 ELSE SegmentLengths(segs, n - 1) + Len(segs[n]) + 1

C17_AtCall ==
  LET segs == Split(CallText)
      n == CountBreaks(CallText)
  IN  /\ Len(segs) = n + 1
      /\ block = CreateElement("div")
      /\ el'.kids = el.kids \o SegmentBlocks(segs, n)
      /\ scanOffset' = scanOffset + SegmentLengths(segs, n)
      /\ block' = block
      /\ IF WhenEnterNode THEN Len(stack') = 1 /\ stack'[1].el = CreateElement("div")
         ELSE stack' = stack
      /\ n = 0 => (el' = el /\ scanOffset' = scanOffset)

C17_EmptyStackEmission == [][AddTextOutside => C17_AtCall]_vars

\* The top-level call has returned from a text of two line breaks and a last
\* segment, without nodes: two blocks, the last segment pending
C17_Witness ==
  /\ pc = "tail" /\ mdast = <<>>
  /\ sourceCode = <<NL, NL, "a">>
  /\ scanOffset = 2
  /\ el.kids = <<SegmentBlock(<<>>), SegmentBlock(<<>>)>>
  /\ block = CreateElement("div")

-----------------------------------------------------------------------------
(* C18 (as amended).  A node is represented by one element per line of the *)
(* text emitted while its frame is open: every line a call of addText adds *)
(* holds, for every open frame, an element with the class of the frame's   *)
(* node (the line itself when the frame is frame 0 or its parent is flow   *)
(* content, the frame's own <span> in that line otherwise), and the close  *)
(* of the node gives the class to the element of its last line.  The block *)
(* of a block-level node has one line more than the text from              *)
(* max(range.start, scanOffset when the node was reached) to its end has   *)
(* line breaks.  "first" and "last" are added only for a node of type      *)
(* html, code or math: "first" to the element of the node's first flush    *)
(* (or of its close, when it was never flushed), "last" to the element of  *)
(* its close; no other flush or close adds them.                           *)
Opaque(node) == node.type \in OpaqueTypes

C18_AtFlush ==
  LET d == Len(stack)
      k == CountBreaks(CallText)
      added == SubSeq(block'.kids, Len(block.kids) + 1, Len(block'.kids))
      lineStyled == {j \in 1..d : j = 1 \/ ~OwnStyle(j - 1)}
  IN  /\ Len(added) = k
      /\ \A m \in 1..k :
           /\ \A j \in 1..d :
                LET e == IF j \in lineStyled THEN added[m] ELSE Spine(added[m], j - 1)
                IN  /\ Class(stack[j].node.type) \in e.cls
                    /\ j \notin lineStyled =>
                         /\ Class("first") \in e.cls <=>
                              (Opaque(stack[j].node) /\ m = 1 /\ stack[j].first)
                         /\ Class("last") \notin e.cls
           /\ Class("first") \in added[m].cls <=>
                /\ m = 1
                /\ \/ Class("first") \in stack[1].el.cls
                   \/ \E j \in lineStyled : Opaque(stack[j].node) /\ stack[j].first
           /\ Class("last") \in added[m].cls <=>
                (m = 1 /\ Class("last") \in stack[1].el.cls)

C18_AtClose ==
  LET d == Len(stack)
      node == stack[d].node
      own == d > 1 /\ OwnStyle(d - 1)
      before == IF own THEN {} ELSE stack[1].el.cls
      after == IF d = 1 THEN Last(Last(el'.kids).kids).cls
               ELSE IF own THEN Last(stack'[d - 1].el.kids).cls
               ELSE stack'[1].el.cls
  IN  /\ Class(node.type) \in after
      /\ Class("last") \in after <=> (Opaque(node) \/ Class("last") \in before)
      /\ Class("first") \in after <=>
           ((Opaque(node) /\ stack[d].first) \/ Class("first") \in before)

\* The lines of the block that the close of a block-level node appends
C18_BlockLines ==
  LET lines == Last(el'.kids).kids
      from == scanOffset + 1 - Len(Broken(lines))
  IN  /\ from >= 0
      /\ Len(lines) = 1 + CountBreaks(Slice(sourceCode,
                                             Max(from, stack[1].node.position.start),
                                             scanOffset))

C18_LinePerElement ==
  /\ [][AddTextInside => C18_AtFlush]_vars
  /\ [][AtClose => C18_AtClose]_vars
  /\ [][WhenCloseTop => C18_BlockLines]_vars

\* C18 as stated: the block of a block-level node has one line for every
\* source line of the node's range
C18_AsStated ==
  [][(WhenCloseTop /\ InputContract /\ BlocksEndAtLineEnd
        /\ CountBreaks(RangeText(stack[1].node)) >= 1)
       => Len(Last(el'.kids).kids) = 1 + CountBreaks(RangeText(stack[1].node))]_vars

\* A block-level code node of three lines has been closed: three lines with
\* the class, "first" on the first only, "last" on the last only
C18_Witness ==
  /\ pc = "walk" /\ stack = <<>> /\ Len(el.kids) = 1
  /\ Len(el.kids[1].kids) = 3
  /\ el.kids[1].kids[1].cls = {Class("code"), Class("first")}
  /\ el.kids[1].kids[2].cls = {Class("code")}
  /\ el.kids[1].kids[3].cls = {Class("code"), Class("last")}

-----------------------------------------------------------------------------
(* C19.  A node without a range is passed over with everything below it:   *)
(* the step leaves scanOffset, the stack, the block and the root as they   *)
(* are and moves to the next sibling; no frame is ever the frame of such a *)
(* node, getChildren only ever runs over the whole tree or the children of *)
(* a node with a range, and no element carries the class of a type that    *)
(* occurs only at or below nodes without a range.  The block of a          *)
(* block-level node has the node's position in the whole list of           *)
(* top-level nodes as its index, the nodes passed over counted.            *)
RECURSIVE AllTypes(_)
AllTypes(nodes) ==
  UNION {{nodes[k].type}
           \cup (IF "children" \in DOMAIN nodes[k]
                   THEN AllTypes(nodes[k].children) ELSE {}) :
         k \in 1..Len(nodes)}

RECURSIVE RangedTypes(_)
RangedTypes(nodes) ==
  UNION {IF HasRange(nodes[k])
           THEN {nodes[k].type}
                  \cup (IF "children" \in DOMAIN nodes[k]
                          THEN RangedTypes(nodes[k].children) ELSE {})
           ELSE {} :
         k \in 1..Len(nodes)}

RECURSIVE ClassesOf(_)
ClassesOf(e) == e.cls \cup UNION {ClassesOf(e.kids[k]) : k \in 1..Len(e.kids)}

ClassesBuilt ==
  ClassesOf(el) \cup ClassesOf(block)
    \cup UNION {ClassesOf(stack[j].el) : j \in 1..Len(stack)}

C19_AtSkip ==
  /\ UNCHANGED <<scanOffset, stack, block, el>>
  /\ calls' = SetTop([Top EXCEPT !.i = @ + 1])

C19_SkipWithoutRange ==
  /\ [](/\ \A j \in 1..Len(stack) : HasRange(stack[j].node)
        /\ \A k \in 1..Len(calls) :
             IF k = 1 THEN calls[k].nodes = mdast
             ELSE LET parent == calls[k - 1].nodes[calls[k - 1].i + 1]
                  IN  HasRange(parent) /\ calls[k].nodes = parent.children
        /\ \A t \in AllTypes(mdast) \ RangedTypes(mdast) :
             Class(t) \notin ClassesBuilt)
  /\ [][(AtNode /\ ~HasRange(CurrentNode)) => C19_AtSkip]_vars
  /\ [][WhenCloseTop =>
          /\ Len(calls) = 1
          /\ mdast[Top.i + 1] = stack[1].node
          /\ HasIndex(Last(el'.kids), Top.i)]_vars

\* "a\nb" with the block quote passed over: its line is a block of text
\* without index and without its classes, the paragraph's block has index 1
C19_Witness ==
  /\ pc = "done"
  /\ Len(mdast) = 2 /\ ~HasRange(mdast[1]) /\ "children" \in DOMAIN mdast[1]
  /\ Len(el.kids) = 2
  /\ el.kids[1].attrs = {}
  /\ HasIndex(el.kids[2], 1)
  /\ Class("paragraph") \in ClassesOf(el.kids[2])
  /\ ClassesOf(el.kids[1]) = {Class("block")}

-----------------------------------------------------------------------------
(* C20.  scanOffset never decreases.  No step of the pass lowers it: a     *)
(* node passed over leaves it as it is, so does the entry of a node whose  *)
(* reported start lies before it (the start is moved up to scanOffset and  *)
(* the text before the node is empty), the close of a block-level node     *)
(* adds one, and no call of addText lowers it.                             *)
C20_Monotone ==
  /\ [][scanOffset' >= scanOffset]_vars
  /\ [][WhenSkipNode => scanOffset' = scanOffset]_vars
  /\ [][(WhenEnterNode /\ CurrentNode.position.start < scanOffset)
          => scanOffset' = scanOffset]_vars
  /\ [][WhenCloseTop => scanOffset' = scanOffset + 1]_vars

\* A node reported to start before scanOffset has been entered
C20_Witness ==
  /\ pc = "walk" /\ Top.at = "pushed"
  /\ CurrentNode.position.start < scanOffset
  /\ scanOffset < CurrentNode.position.end

====
